---- MODULE Spec2Model ----
(***************************************************************************)
(* The concept-explainer actions (createConcept .. listJobs) over the four *)
(* astro:db tables Concepts, ConceptSteps, ConceptChecks and ConceptJobs.  *)
(*                                                                         *)
(* Values.  An optional value (an input property that may be undefined, a  *)
(* nullable column) is a set with at most one element: {} is undefined /   *)
(* NULL, {v} is v.  A required value is the value itself.  Dates are the   *)
(* reading of a clock, now.                                                *)
(*                                                                         *)
(* Store.  db is a drizzle database: insert(..).values(v) leaves a column  *)
(* whose value is undefined to its default (NULL for an optional column),  *)
(* update(..).set(v) leaves a column whose value is undefined as it is,    *)
(* and returning() gives the rows written, in a list whose first element   *)
(* the handlers destructure (undefined when no row matched).  Primary keys *)
(* are autoIncrement: seq holds the last id each table gave out, and an id *)
(* is never given out twice.                                               *)
(***************************************************************************)
EXTENDS Integers, FiniteSets, Sequences, TLC

VARIABLES
    Concepts,       \* rows of table Concepts
    ConceptSteps,   \* rows of table ConceptSteps
    ConceptChecks,  \* rows of table ConceptChecks
    ConceptJobs,    \* rows of table ConceptJobs
    seq,            \* last autoIncrement id given out, per table
    now,            \* the clock read by new Date() and by the NOW default
    fkEnforced,     \* whether the store enforces the references (foreign keys)
    calls           \* the calls in flight, each between two store calls

vars == <<Concepts, ConceptSteps, ConceptChecks, ConceptJobs, seq, now,
          fkEnforced, calls>>

tables == <<Concepts, ConceptSteps, ConceptChecks, ConceptJobs, seq>>

----------------------------------------------------------------------------
(* Bounds of the model *)

MaxConcepts == 2
MaxSteps == 1
MaxChecks == 1
MaxJobs == 1
MaxClock == 1
MaxCalls == 2

Users == {"u1", "u2"}

----------------------------------------------------------------------------
(* Optional values and JavaScript's tests on them *)

Val(opt) == CHOOSE v \in opt : TRUE

\* opt ?? d
OrElse(opt, d) == IF opt = {} THEN d ELSE Val(opt)

\* if (n) on an optional number: undefined, null and 0 are falsy
TruthyNum(opt) == opt # {} /\ opt # {0}

\* if (s) on an optional string: undefined, null and "" are falsy
TruthyText(opt) == opt # {} /\ opt # {""}

\* the column after set({col: opt}): drizzle skips an undefined value
SetCol(opt, old) == IF opt = {} THEN old ELSE opt

\* the same for a NOT NULL column, whose stored value is not optional
SetReq(opt, old) == IF opt = {} THEN old ELSE Val(opt)

----------------------------------------------------------------------------
(* The store: its tables and the last id each gave out *)

db == [Concepts |-> Concepts, ConceptSteps |-> ConceptSteps,
       ConceptChecks |-> ConceptChecks, ConceptJobs |-> ConceptJobs,
       seq |-> seq]

EmptyDb == [Concepts |-> {}, ConceptSteps |-> {}, ConceptChecks |-> {},
            ConceptJobs |-> {},
            seq |-> [Concepts |-> 0, ConceptSteps |-> 0, ConceptChecks |-> 0,
                     ConceptJobs |-> 0]]

\* id: column.number({ primaryKey: true, autoIncrement: true })
NextId(S, table) == S.seq[table] + 1

\* OwnedConcept gone wrong: the select leaves archived rows out
OwnedLiveConcept(S, id, userId) ==
    {c \in S.Concepts :
       c.id = id /\ c.ownerId = userId /\ c.status # "archived"}

\* select().from(Concepts).where(and(eq(id), eq(ownerId))).limit(1)
OwnedConcept(S, id, userId) ==
    {c \in S.Concepts : c.id = id /\ c.ownerId = userId}

\* select().from(Concepts).where(eq(Concepts.ownerId, user.id))
ConceptsOf(S, userId) == {c \in S.Concepts : c.ownerId = userId}

----------------------------------------------------------------------------
(* Results of a call *)

Ok(fields) == [ok |-> TRUE, data |-> fields]

Unauthorized ==
    [ok |-> FALSE, code |-> "UNAUTHORIZED",
     message |-> "You must be signed in to perform this action."]

NotFound(msg) == [ok |-> FALSE, code |-> "NOT_FOUND", message |-> msg]

\* an error of the store, which the handler does not catch
StoreError(msg) ==
    [ok |-> FALSE, code |-> "INTERNAL_SERVER_ERROR", message |-> msg]

\* what a handler leaves: the store after it, its result, the row it loaded
Outcome(S, result, existing) ==
    [db |-> S, result |-> result, existing |-> existing]

\* context.locals.user, undefined for a request that is not signed in
requireUser(context) == context.user

Contexts == {[user |-> {}]} \cup {[user |-> {u}] : u \in Users}

----------------------------------------------------------------------------
(* Concept actions *)

createConcept(S, context, input) ==
    IF requireUser(context) = {} THEN Outcome(S, Unauthorized, {})
    ELSE
      LET user == Val(requireUser(context))
          concept == [id |-> NextId(S, "Concepts"),
                      ownerId |-> user,
                      title |-> input.title,
                      description |-> input.description,
                      subject |-> input.subject,
                      topic |-> input.topic,
                      tags |-> input.tags,
                      difficulty |-> OrElse(input.difficulty, "beginner"),
                      status |-> OrElse(input.status, "draft"),
                      createdAt |-> now,
                      updatedAt |-> now]
      IN Outcome([S EXCEPT !.Concepts = @ \cup {concept},
                           !.seq.Concepts = concept.id],
                 Ok([concept |-> {concept}]), {})

\* UpdateDataKeys gone wrong: updatedAt is put in updateData before the
\* test for no keys
UpdateDataKeysStamped(input) ==
    {k \in DOMAIN input \ {"id"} : input[k] # {}} \cup {"updatedAt"}

\* the keys of updateData: the properties of rest that are not undefined
UpdateDataKeys(input) ==
    {k \in DOMAIN input \ {"id"} : input[k] # {}}

updateConcept(S, context, input) ==
    IF requireUser(context) = {} THEN Outcome(S, Unauthorized, {})
    ELSE
      LET user == Val(requireUser(context))
          existing == OwnedConcept(S, input.id, user)
      IN IF existing = {}
         THEN Outcome(S, NotFound("Concept not found."), {})
         ELSE IF UpdateDataKeys(input) = {}
         THEN Outcome(S, Ok([concept |-> existing]), existing)
         ELSE
           LET old == Val(existing)
               concept == [old EXCEPT
                             !.title = SetReq(input.title, @),
                             !.description = SetCol(input.description, @),
                             !.subject = SetCol(input.subject, @),
                             !.topic = SetCol(input.topic, @),
                             !.tags = SetCol(input.tags, @),
                             !.difficulty = SetReq(input.difficulty, @),
                             !.status = SetReq(input.status, @),
                             !.updatedAt = now]
           IN Outcome([S EXCEPT !.Concepts = (@ \ {old}) \cup {concept}],
                      Ok([concept |-> {concept}]), existing)

archiveConcept(S, context, input) ==
    IF requireUser(context) = {} THEN Outcome(S, Unauthorized, {})
    ELSE
      LET user == Val(requireUser(context))
          matched == OwnedConcept(S, input.id, user)
          written == {[c EXCEPT !.status = "archived", !.updatedAt = now] :
                        c \in matched}
      IN IF written = {}
         THEN Outcome(S, NotFound("Concept not found."), {})
         ELSE Outcome([S EXCEPT !.Concepts = (@ \ matched) \cup written],
                      Ok([concept |-> written]), {})

listMyConcepts(S, context, input) ==
    IF requireUser(context) = {} THEN Outcome(S, Unauthorized, {})
    ELSE
      LET user == Val(requireUser(context))
          concepts == ConceptsOf(S, user)
          matchesStatus(c) ==
              IF TruthyText(input.status) THEN c.status = Val(input.status)
              ELSE TRUE
          matchesSubject(c) ==
              IF TruthyText(input.subject) THEN c.subject = input.subject
              ELSE TRUE
          matchesTopic(c) ==
              IF TruthyText(input.topic) THEN c.topic = input.topic
              ELSE TRUE
          filtered == {c \in concepts :
                         matchesStatus(c) /\ matchesSubject(c) /\ matchesTopic(c)}
      IN Outcome(S, Ok([concepts |-> filtered]), {})

getConceptWithDetails(S, context, input) ==
    IF requireUser(context) = {} THEN Outcome(S, Unauthorized, {})
    ELSE
      LET user == Val(requireUser(context))
          concept == OwnedConcept(S, input.id, user)
          steps == {s \in S.ConceptSteps : s.conceptId = input.id}
          checks == {k \in S.ConceptChecks : k.conceptId = input.id}
      IN IF concept = {}
         THEN Outcome(S, NotFound("Concept not found."), {})
         ELSE Outcome(S, Ok([concept |-> concept, steps |-> steps,
                             checks |-> checks]), {})

----------------------------------------------------------------------------
(* Step actions, and the store calls they are made of *)

\* baseValues of saveStep
StepBaseValues(input) ==
    [conceptId |-> input.conceptId,
     stepNumber |-> OrElse(input.stepNumber, 1),
     stepType |-> OrElse(input.stepType, "other"),
     heading |-> input.heading,
     content |-> input.content,
     example |-> input.example,
     analogy |-> input.analogy]

\* select().from(ConceptSteps).where(eq(ConceptSteps.id, id)).limit(1)
StepById(S, id) == {s \in S.ConceptSteps : s.id = id}

\* StepMismatch gone wrong: only !existing is tested
StepMissing(existing, input) == existing = {}

\* !existing || existing.conceptId !== input.conceptId
StepMismatch(existing, input) ==
    existing = {} \/ Val(existing).conceptId # input.conceptId

\* update(ConceptSteps).set(baseValues).where(eq(id)).returning()
\* baseValues.heading, .example and .analogy may be undefined: not set
StepSet(s, base) ==
    [s EXCEPT !.conceptId = base.conceptId,
              !.stepNumber = base.stepNumber,
              !.stepType = base.stepType,
              !.heading = SetCol(base.heading, @),
              !.content = base.content,
              !.example = SetCol(base.example, @),
              !.analogy = SetCol(base.analogy, @)]

UpdateStep(S, id, base) ==
    LET matched == StepById(S, id)
        written == {StepSet(s, base) : s \in matched}
    IN [db |-> [S EXCEPT !.ConceptSteps = (@ \ matched) \cup written],
        rows |-> written]

\* insert(ConceptSteps).values(baseValues).returning()
InsertStep(S, base) ==
    LET step == [id |-> NextId(S, "ConceptSteps"),
                 conceptId |-> base.conceptId,
                 stepNumber |-> base.stepNumber,
                 stepType |-> base.stepType,
                 heading |-> base.heading,
                 content |-> base.content,
                 example |-> base.example,
                 analogy |-> base.analogy,
                 createdAt |-> now]
    IN [db |-> [S EXCEPT !.ConceptSteps = @ \cup {step},
                         !.seq.ConceptSteps = step.id],
        rows |-> {step}]

\* DeleteStepRows gone wrong: the where clause has eq(id) alone
DeleteStepRowsById(S, id, conceptId) ==
    LET matched == {s \in S.ConceptSteps : s.id = id}
    IN [db |-> [S EXCEPT !.ConceptSteps = @ \ matched], rows |-> matched]

\* delete(ConceptSteps).where(and(eq(id), eq(conceptId))).returning()
DeleteStepRows(S, id, conceptId) ==
    LET matched == {s \in S.ConceptSteps : s.id = id /\ s.conceptId = conceptId}
    IN [db |-> [S EXCEPT !.ConceptSteps = @ \ matched], rows |-> matched]

saveStep(S, context, input) ==
    IF requireUser(context) = {} THEN Outcome(S, Unauthorized, {})
    ELSE
      LET user == Val(requireUser(context))
          concept == OwnedConcept(S, input.conceptId, user)
          baseValues == StepBaseValues(input)
      IN IF concept = {}
         THEN Outcome(S, NotFound("Concept not found."), {})
         ELSE IF TruthyNum(input.id)
         THEN
           LET existing == StepById(S, Val(input.id))
               upd == UpdateStep(S, Val(input.id), baseValues)
           IN IF StepMismatch(existing, input)
              THEN Outcome(S, NotFound("Step not found."), existing)
              ELSE Outcome(upd.db, Ok([step |-> upd.rows]), existing)
         ELSE
           LET ins == InsertStep(S, baseValues)
           IN Outcome(ins.db, Ok([step |-> ins.rows]), {})

\* deleteStep gone wrong: no test of what the delete returned
deleteStepUnchecked(S, context, input) ==
    IF requireUser(context) = {} THEN Outcome(S, Unauthorized, {})
    ELSE
      LET user == Val(requireUser(context))
          concept == {c \in S.Concepts :
                        c.id = input.conceptId /\ c.ownerId = user}
          matched == {s \in S.ConceptSteps :
                        s.id = input.id /\ s.conceptId = input.conceptId}
      IN IF concept = {}
         THEN Outcome(S, NotFound("Concept not found."), {})
         ELSE Outcome([S EXCEPT !.ConceptSteps = @ \ matched],
                      Ok([step |-> matched]), {})

deleteStep(S, context, input) ==
    IF requireUser(context) = {} THEN Outcome(S, Unauthorized, {})
    ELSE
      LET user == Val(requireUser(context))
          concept == OwnedConcept(S, input.conceptId, user)
          del == DeleteStepRows(S, input.id, input.conceptId)
      IN IF concept = {}
         THEN Outcome(S, NotFound("Concept not found."), {})
         ELSE IF del.rows = {}
         THEN Outcome(S, NotFound("Step not found."), {})
         ELSE Outcome(del.db, Ok([step |-> del.rows]), {})

----------------------------------------------------------------------------
(* Check actions *)

\* baseValues of saveCheck
CheckBaseValues(input) ==
    [conceptId |-> input.conceptId,
     question |-> input.question,
     options |-> input.options,
     correctAnswer |-> input.correctAnswer,
     explanation |-> input.explanation,
     type |-> OrElse(input.type, "single_choice")]

\* select().from(ConceptChecks).where(eq(ConceptChecks.id, id)).limit(1)
CheckById(S, id) == {k \in S.ConceptChecks : k.id = id}

\* !existing || existing.conceptId !== input.conceptId
CheckMismatch(existing, input) ==
    existing = {} \/ Val(existing).conceptId # input.conceptId

\* update(ConceptChecks).set(baseValues).where(eq(id)).returning()
CheckSet(k, base) ==
    [k EXCEPT !.conceptId = base.conceptId,
              !.question = base.question,
              !.options = SetCol(base.options, @),
              !.correctAnswer = SetCol(base.correctAnswer, @),
              !.explanation = SetCol(base.explanation, @),
              !.type = base.type]

UpdateCheck(S, id, base) ==
    LET matched == CheckById(S, id)
        written == {CheckSet(k, base) : k \in matched}
    IN [db |-> [S EXCEPT !.ConceptChecks = (@ \ matched) \cup written],
        rows |-> written]

\* insert(ConceptChecks).values(baseValues).returning()
InsertCheck(S, base) ==
    LET check == [id |-> NextId(S, "ConceptChecks"),
                  conceptId |-> base.conceptId,
                  question |-> base.question,
                  options |-> base.options,
                  correctAnswer |-> base.correctAnswer,
                  explanation |-> base.explanation,
                  type |-> base.type,
                  createdAt |-> now]
    IN [db |-> [S EXCEPT !.ConceptChecks = @ \cup {check},
                         !.seq.ConceptChecks = check.id],
        rows |-> {check}]

\* delete(ConceptChecks).where(and(eq(id), eq(conceptId))).returning()
DeleteCheckRows(S, id, conceptId) ==
    LET matched == {k \in S.ConceptChecks : k.id = id /\ k.conceptId = conceptId}
    IN [db |-> [S EXCEPT !.ConceptChecks = @ \ matched], rows |-> matched]

saveCheck(S, context, input) ==
    IF requireUser(context) = {} THEN Outcome(S, Unauthorized, {})
    ELSE
      LET user == Val(requireUser(context))
          concept == OwnedConcept(S, input.conceptId, user)
          baseValues == CheckBaseValues(input)
      IN IF concept = {}
         THEN Outcome(S, NotFound("Concept not found."), {})
         ELSE IF TruthyNum(input.id)
         THEN
           LET existing == CheckById(S, Val(input.id))
               upd == UpdateCheck(S, Val(input.id), baseValues)
           IN IF CheckMismatch(existing, input)
              THEN Outcome(S, NotFound("Check not found."), existing)
              ELSE Outcome(upd.db, Ok([check |-> upd.rows]), existing)
         ELSE
           LET ins == InsertCheck(S, baseValues)
           IN Outcome(ins.db, Ok([check |-> ins.rows]), {})

deleteCheck(S, context, input) ==
    IF requireUser(context) = {} THEN Outcome(S, Unauthorized, {})
    ELSE
      LET user == Val(requireUser(context))
          concept == OwnedConcept(S, input.conceptId, user)
          del == DeleteCheckRows(S, input.id, input.conceptId)
      IN IF concept = {}
         THEN Outcome(S, NotFound("Concept not found."), {})
         ELSE IF del.rows = {}
         THEN Outcome(S, NotFound("Check not found."), {})
         ELSE Outcome(del.db, Ok([check |-> del.rows]), {})

----------------------------------------------------------------------------
(* Job actions *)

\* conceptId: column.number({ references: () => Concepts.columns.id,
\* optional: true }): a store that enforces the reference refuses a
\* conceptId that is the id of no Concepts row
JobReferenceBroken(S, conceptId) ==
    /\ fkEnforced
    /\ conceptId # {}
    /\ \A c \in S.Concepts : c.id # Val(conceptId)

createJob(S, context, input) ==
    IF requireUser(context) = {} THEN Outcome(S, Unauthorized, {})
    ELSE
      LET user == Val(requireUser(context))
          job == [id |-> NextId(S, "ConceptJobs"),
                  conceptId |-> input.conceptId,
                  ownerId |-> user,
                  jobType |-> OrElse(input.jobType, "step_breakdown"),
                  input |-> input.input,
                  output |-> input.output,
                  status |-> OrElse(input.status, "pending"),
                  createdAt |-> now]
      IN IF TruthyNum(input.conceptId)
            /\ OwnedConcept(S, Val(input.conceptId), user) = {}
         THEN Outcome(S, NotFound("Concept not found."), {})
         ELSE IF JobReferenceBroken(S, input.conceptId)
         THEN Outcome(S, StoreError("FOREIGN KEY constraint failed"), {})
         ELSE Outcome([S EXCEPT !.ConceptJobs = @ \cup {job},
                                !.seq.ConceptJobs = job.id],
                      Ok([job |-> {job}]), {})

\* OwnedJob gone wrong: the where clause has eq(id) alone
JobById(S, id, userId) == {j \in S.ConceptJobs : j.id = id}

\* select().from(ConceptJobs).where(and(eq(id), eq(ownerId))).limit(1)
OwnedJob(S, id, userId) ==
    {j \in S.ConceptJobs : j.id = id /\ j.ownerId = userId}

updateJob(S, context, input) ==
    IF requireUser(context) = {} THEN Outcome(S, Unauthorized, {})
    ELSE
      LET user == Val(requireUser(context))
          existing == OwnedJob(S, input.id, user)
          matched == {j \in S.ConceptJobs : j.id = input.id}
          written == {[j EXCEPT !.output = SetCol(input.output, @),
                                !.status = SetReq(input.status, @)] :
                        j \in matched}
      IN IF existing = {}
         THEN Outcome(S, NotFound("Job not found."), {})
         ELSE IF UpdateDataKeys(input) = {}
         THEN Outcome(S, Ok([job |-> existing]), existing)
         ELSE Outcome([S EXCEPT !.ConceptJobs = (@ \ matched) \cup written],
                      Ok([job |-> written]), existing)

listJobs(S, context, input) ==
    IF requireUser(context) = {} THEN Outcome(S, Unauthorized, {})
    ELSE
      LET user == Val(requireUser(context))
          owned == ConceptsOf(S, user)
          concepts == IF TruthyNum(input.conceptId)
                      THEN {c \in owned : c.id = Val(input.conceptId)}
                      ELSE owned
          allowedConceptIds == {c.id : c \in concepts}
          jobs == {j \in S.ConceptJobs : j.ownerId = user}
          matchesConcept(j) ==
              IF TruthyNum(j.conceptId)
              THEN Val(j.conceptId) \in allowedConceptIds
              ELSE TRUE
          matchesStatus(j) ==
              IF TruthyText(input.status) THEN j.status = Val(input.status)
              ELSE TRUE
          filtered == {j \in jobs : matchesConcept(j) /\ matchesStatus(j)}
      IN IF TruthyNum(input.conceptId) /\ concepts = {}
         THEN Outcome(S, NotFound("Concept not found."), {})
         ELSE Outcome(S, Ok([jobs |-> filtered]), {})

----------------------------------------------------------------------------
(* Inputs: what the zod schemas let through, drawn from small sets *)

\* an id argument: 0, every id the table can have given out
IdArgs(max) == 0 .. max

NoConceptFields ==
    [title |-> {}, description |-> {}, subject |-> {}, topic |-> {},
     tags |-> {}, difficulty |-> {}, status |-> {}]

ConceptFields(title, subject, difficulty, status) ==
    [NoConceptFields EXCEPT !.title = title, !.subject = subject,
                            !.difficulty = difficulty, !.status = status]

\* createConcept: title is required
CreateConceptInput(title, subject, difficulty, status) ==
    [title |-> title, description |-> {}, subject |-> subject, topic |-> {},
     tags |-> {}, difficulty |-> difficulty, status |-> status]

UpdateConceptInput(id, fields) ==
    [id |-> id, title |-> fields.title, description |-> fields.description,
     subject |-> fields.subject, topic |-> fields.topic, tags |-> fields.tags,
     difficulty |-> fields.difficulty, status |-> fields.status]

ListConceptsInput(status, subject) ==
    [status |-> status, subject |-> subject, topic |-> {}]

StepInput(id, conceptId, stepNumber, stepType, heading, content) ==
    [id |-> id, conceptId |-> conceptId, stepNumber |-> stepNumber,
     stepType |-> stepType, heading |-> heading, content |-> content,
     example |-> {}, analogy |-> {}]

CheckInput(id, conceptId, question, explanation, type) ==
    [id |-> id, conceptId |-> conceptId, question |-> question,
     options |-> {}, correctAnswer |-> {}, explanation |-> explanation,
     type |-> type]

JobInput(conceptId, status) ==
    [conceptId |-> conceptId, jobType |-> {}, input |-> {}, output |-> {},
     status |-> status]

\* an optional id: left out, or one of ids
Opt(ids) == {{}} \cup {{i} : i \in ids}

OptIds(max) == Opt(IdArgs(max))

----------------------------------------------------------------------------------------------------------------------------------------
(* A call that runs as one unit against the store.  What a call returns is *)
(* out.result; the store keeps out.db.                                     *)

Apply(op, S, context, input) ==
    CASE op = "createConcept" -> createConcept(S, context, input)
      [] op = "updateConcept" -> updateConcept(S, context, input)
      [] op = "archiveConcept" -> archiveConcept(S, context, input)
      [] op = "listMyConcepts" -> listMyConcepts(S, context, input)
      [] op = "getConceptWithDetails" -> getConceptWithDetails(S, context, input)
      [] op = "saveStep" -> saveStep(S, context, input)
      [] op = "deleteStep" -> deleteStep(S, context, input)
      [] op = "saveCheck" -> saveCheck(S, context, input)
      [] op = "deleteCheck" -> deleteCheck(S, context, input)
      [] op = "createJob" -> createJob(S, context, input)
      [] op = "updateJob" -> updateJob(S, context, input)
      [] op = "listJobs" -> listJobs(S, context, input)

WithinBounds(S) ==
    /\ S.seq.Concepts <= MaxConcepts
    /\ S.seq.ConceptSteps <= MaxSteps
    /\ S.seq.ConceptChecks <= MaxChecks
    /\ S.seq.ConceptJobs <= MaxJobs

Store(S) ==
    /\ WithinBounds(S)
    /\ Concepts' = S.Concepts
    /\ ConceptSteps' = S.ConceptSteps
    /\ ConceptChecks' = S.ConceptChecks
    /\ ConceptJobs' = S.ConceptJobs
    /\ seq' = S.seq

CallCreateConcept(context, input) ==
    /\ Store(createConcept(db, context, input).db)
    /\ UNCHANGED <<now, fkEnforced, calls>>

CallUpdateConcept(context, input) ==
    /\ Store(updateConcept(db, context, input).db)
    /\ UNCHANGED <<now, fkEnforced, calls>>

CallArchiveConcept(context, input) ==
    /\ Store(archiveConcept(db, context, input).db)
    /\ UNCHANGED <<now, fkEnforced, calls>>

CallListMyConcepts(context, input) ==
    /\ Store(listMyConcepts(db, context, input).db)
    /\ UNCHANGED <<now, fkEnforced, calls>>

CallGetConceptWithDetails(context, input) ==
    /\ Store(getConceptWithDetails(db, context, input).db)
    /\ UNCHANGED <<now, fkEnforced, calls>>

CallSaveStep(context, input) ==
    /\ Store(saveStep(db, context, input).db)
    /\ UNCHANGED <<now, fkEnforced, calls>>

CallDeleteStep(context, input) ==
    /\ Store(deleteStep(db, context, input).db)
    /\ UNCHANGED <<now, fkEnforced, calls>>

CallSaveCheck(context, input) ==
    /\ Store(saveCheck(db, context, input).db)
    /\ UNCHANGED <<now, fkEnforced, calls>>

CallDeleteCheck(context, input) ==
    /\ Store(deleteCheck(db, context, input).db)
    /\ UNCHANGED <<now, fkEnforced, calls>>

CallCreateJob(context, input) ==
    /\ Store(createJob(db, context, input).db)
    /\ UNCHANGED <<now, fkEnforced, calls>>

CallUpdateJob(context, input) ==
    /\ Store(updateJob(db, context, input).db)
    /\ UNCHANGED <<now, fkEnforced, calls>>

CallListJobs(context, input) ==
    /\ Store(listJobs(db, context, input).db)
    /\ UNCHANGED <<now, fkEnforced, calls>>

\* time passes
Tick ==
    /\ now < MaxClock
    /\ now' = now + 1
    /\ UNCHANGED <<tables, fkEnforced, calls>>

Idle == [pc |-> "idle"]

Init ==
    /\ Concepts = {}
    /\ ConceptSteps = {}
    /\ ConceptChecks = {}
    /\ ConceptJobs = {}
    /\ seq = EmptyDb.seq
    /\ now = 0
    /\ fkEnforced \in BOOLEAN
    /\ calls = [p \in 1 .. MaxCalls |-> Idle]

UserContexts == {[user |-> {u}] : u \in Users}

----------------------------------------------------------------------------
(* Spec: every action, each call one unit, over a store of few rows with   *)
(* few values in them.                                                     *)

Next ==
    \/ \E context \in Contexts :
         CallCreateConcept(context, CreateConceptInput("Big-O", {}, {}, {}))
    \/ \E context \in Contexts, id \in IdArgs(MaxConcepts),
          status \in {{}, {"published"}} :
         CallUpdateConcept(context,
             UpdateConceptInput(id, ConceptFields({}, {}, {}, status)))
    \/ \E context \in Contexts, id \in IdArgs(MaxConcepts) :
         CallArchiveConcept(context, [id |-> id])
    \/ \E context \in Contexts, status \in {{}, {"archived"}} :
         CallListMyConcepts(context, ListConceptsInput(status, {}))
    \/ \E context \in Contexts, id \in IdArgs(MaxConcepts) :
         CallGetConceptWithDetails(context, [id |-> id])
    \/ \E context \in Contexts, id \in OptIds(MaxSteps),
          conceptId \in IdArgs(MaxConcepts) :
         CallSaveStep(context,
             StepInput(id, conceptId, {}, {}, {}, "intro text"))
    \/ \E context \in Contexts, id \in IdArgs(MaxSteps),
          conceptId \in IdArgs(MaxConcepts) :
         CallDeleteStep(context, [id |-> id, conceptId |-> conceptId])
    \/ \E context \in Contexts, id \in OptIds(MaxChecks),
          conceptId \in IdArgs(MaxConcepts) :
         CallSaveCheck(context, CheckInput(id, conceptId, "why?", {}, {}))
    \/ \E context \in Contexts, id \in IdArgs(MaxChecks),
          conceptId \in IdArgs(MaxConcepts) :
         CallDeleteCheck(context, [id |-> id, conceptId |-> conceptId])
    \/ \E context \in Contexts, conceptId \in OptIds(MaxConcepts) :
         CallCreateJob(context, JobInput(conceptId, {}))
    \/ \E context \in Contexts, id \in IdArgs(MaxJobs),
          status \in {{}, {"completed"}} :
         CallUpdateJob(context, [id |-> id, output |-> {}, status |-> status])
    \/ \E context \in Contexts, conceptId \in OptIds(MaxConcepts) :
         CallListJobs(context, [conceptId |-> conceptId, status |-> {}])

Spec == Init /\ [][Next]_vars

----------------------------------------------------------------------------
(* SpecConcepts: the Concept actions, with more of their fields, while the *)
(* clock runs.                                                             *)

ConceptFieldInputs ==
    {NoConceptFields,
     ConceptFields({}, {}, {}, {"published"}),
     ConceptFields({"Big-O 2"}, {"cs"}, {"advanced"}, {})}

NextConcepts ==
    \/ \E context \in Contexts :
         CallCreateConcept(context, CreateConceptInput("Big-O", {}, {}, {}))
    \/ \E context \in Contexts, id \in IdArgs(MaxConcepts),
          fields \in ConceptFieldInputs :
         CallUpdateConcept(context, UpdateConceptInput(id, fields))
    \/ \E context \in Contexts, id \in IdArgs(MaxConcepts) :
         CallArchiveConcept(context, [id |-> id])
    \/ \E context \in Contexts, status \in {{}, {"archived"}},
          subject \in {{}, {"cs"}} :
         CallListMyConcepts(context, ListConceptsInput(status, subject))
    \/ \E context \in Contexts, id \in IdArgs(MaxConcepts) :
         CallGetConceptWithDetails(context, [id |-> id])
    \/ Tick

SpecConcepts == Init /\ [][NextConcepts]_vars

----------------------------------------------------------------------------
(* SpecSteps: the Step and Check actions, with more of their fields, under *)
(* the Concepts of the callers.                                            *)

\* stepNumber, stepType and heading given, or all three left out
StepInputs(ids, conceptIds) ==
    {StepInput(id, conceptId, {}, {}, {}, "intro text") :
        id \in ids, conceptId \in conceptIds}
    \cup {StepInput(id, conceptId, {2}, {"intro"}, {"Why"}, "revised") :
            id \in ids, conceptId \in conceptIds}

\* type and explanation given, or both left out
CheckInputs(ids, conceptIds) ==
    {CheckInput(id, conceptId, "why?", {}, {}) :
        id \in ids, conceptId \in conceptIds}
    \cup {CheckInput(id, conceptId, "really?", {"because"}, {"true_false"}) :
            id \in ids, conceptId \in conceptIds}

NextSteps ==
    \/ \E context \in Contexts :
         CallCreateConcept(context, CreateConceptInput("Big-O", {}, {}, {}))
    \/ \E context \in Contexts,
          input \in StepInputs(OptIds(MaxSteps), IdArgs(MaxConcepts)) :
         CallSaveStep(context, input)
    \/ \E context \in Contexts, id \in IdArgs(MaxSteps),
          conceptId \in IdArgs(MaxConcepts) :
         CallDeleteStep(context, [id |-> id, conceptId |-> conceptId])
    \/ \E context \in Contexts,
          input \in CheckInputs(OptIds(MaxChecks), IdArgs(MaxConcepts)) :
         CallSaveCheck(context, input)
    \/ \E context \in Contexts, id \in IdArgs(MaxChecks),
          conceptId \in IdArgs(MaxConcepts) :
         CallDeleteCheck(context, [id |-> id, conceptId |-> conceptId])
    \/ \E context \in Contexts, id \in IdArgs(MaxConcepts) :
         CallGetConceptWithDetails(context, [id |-> id])

SpecSteps == Init /\ [][NextSteps]_vars

----------------------------------------------------------------------------
(* SpecAsync: saveStep and deleteStep as the store calls they await, one   *)
(* at a time, several calls in flight.  createConcept is one store call.   *)
(* calls[p].pc names the store call that call p makes next.                *)

InFlight(pc, op, context, input) ==
    [pc |-> pc, op |-> op, context |-> context, input |-> input]

Returned(call, result) ==
    [pc |-> "returned", op |-> call.op, context |-> call.context,
     input |-> call.input, result |-> result]

\* requireUser, then select().from(Concepts) ... limit(1)
SaveStepSelectConcept(p, context, input) ==
    /\ calls[p] = Idle
    /\ LET call == InFlight("selectConcept", "saveStep", context, input)
       IN calls' = [calls EXCEPT ![p] =
            IF requireUser(context) = {}
            THEN Returned(call, Unauthorized)
            ELSE IF OwnedConcept(db, input.conceptId,
                                 Val(requireUser(context))) = {}
            THEN Returned(call, NotFound("Concept not found."))
            ELSE IF TruthyNum(input.id)
            THEN [call EXCEPT !.pc = "selectExisting"]
            ELSE [call EXCEPT !.pc = "insert"]]
    /\ UNCHANGED <<tables, now, fkEnforced>>

\* select().from(ConceptSteps).where(eq(id)).limit(1)
SaveStepSelectExisting(p) ==
    /\ calls[p].pc = "selectExisting"
    /\ LET call == calls[p]
           existing == StepById(db, Val(call.input.id))
       IN calls' = [calls EXCEPT ![p] =
            IF StepMismatch(existing, call.input)
            THEN Returned(call, NotFound("Step not found."))
            ELSE [call EXCEPT !.pc = "update"]]
    /\ UNCHANGED <<tables, now, fkEnforced>>

\* update(ConceptSteps).set(baseValues).where(eq(id)).returning()
SaveStepUpdate(p) ==
    /\ calls[p].pc = "update"
    /\ LET call == calls[p]
           upd == UpdateStep(db, Val(call.input.id), StepBaseValues(call.input))
       IN /\ Store(upd.db)
          /\ calls' = [calls EXCEPT ![p] =
                         Returned(call, Ok([step |-> upd.rows]))]
    /\ UNCHANGED <<now, fkEnforced>>

\* insert(ConceptSteps).values(baseValues).returning()
SaveStepInsert(p) ==
    /\ calls[p].pc = "insert"
    /\ LET call == calls[p]
           ins == InsertStep(db, StepBaseValues(call.input))
       IN /\ Store(ins.db)
          /\ calls' = [calls EXCEPT ![p] =
                         Returned(call, Ok([step |-> ins.rows]))]
    /\ UNCHANGED <<now, fkEnforced>>

\* requireUser, then select().from(Concepts) ... limit(1)
DeleteStepSelectConcept(p, context, input) ==
    /\ calls[p] = Idle
    /\ LET call == InFlight("selectConcept", "deleteStep", context, input)
       IN calls' = [calls EXCEPT ![p] =
            IF requireUser(context) = {}
            THEN Returned(call, Unauthorized)
            ELSE IF OwnedConcept(db, input.conceptId,
                                 Val(requireUser(context))) = {}
            THEN Returned(call, NotFound("Concept not found."))
            ELSE [call EXCEPT !.pc = "delete"]]
    /\ UNCHANGED <<tables, now, fkEnforced>>

\* delete(ConceptSteps).where(and(eq(id), eq(conceptId))).returning()
DeleteStepDelete(p) ==
    /\ calls[p].pc = "delete"
    /\ LET call == calls[p]
           del == DeleteStepRows(db, call.input.id, call.input.conceptId)
       IN /\ Store(del.db)
          /\ calls' = [calls EXCEPT ![p] =
                         IF del.rows = {}
                         THEN Returned(call, NotFound("Step not found."))
                         ELSE Returned(call, Ok([step |-> del.rows]))]
    /\ UNCHANGED <<now, fkEnforced>>

\* the caller has the result
Deliver(p) ==
    /\ calls[p].pc = "returned"
    /\ calls' = [calls EXCEPT ![p] = Idle]
    /\ UNCHANGED <<tables, now, fkEnforced>>

NextAsync ==
    \/ \E context \in UserContexts :
         CallCreateConcept(context, CreateConceptInput("Big-O", {}, {}, {}))
    \/ \E p \in DOMAIN calls, context \in Contexts,
          id \in {{}} \cup {{i} : i \in 1 .. MaxSteps},
          conceptId \in 1 .. MaxConcepts :
         SaveStepSelectConcept(p, context,
             StepInput(id, conceptId, {}, {}, {}, "intro text"))
    \/ \E p \in DOMAIN calls : SaveStepSelectExisting(p)
    \/ \E p \in DOMAIN calls : SaveStepUpdate(p)
    \/ \E p \in DOMAIN calls : SaveStepInsert(p)
    \/ \E p \in DOMAIN calls, context \in Contexts, id \in 1 .. MaxSteps,
          conceptId \in 1 .. MaxConcepts :
         DeleteStepSelectConcept(p, context,
             [id |-> id, conceptId |-> conceptId])
    \/ \E p \in DOMAIN calls : DeleteStepDelete(p)
    \/ \E p \in DOMAIN calls : Deliver(p)

SpecAsync == Init /\ [][NextAsync]_vars

----------------------------------------------------------------------------
(* The calls the properties below range over, in every reachable state:    *)
(* every caller, and as ids 0, every id a table can have given out and one *)
(* it has not.                                                             *)

ConceptIdProbes == 0 .. MaxConcepts + 1
StepIdProbes == 0 .. MaxSteps + 1
CheckIdProbes == 0 .. MaxChecks + 1
JobIdProbes == 0 .. MaxJobs + 1

CreateConceptProbes ==
    {CreateConceptInput("Big-O", {}, {}, {}),
     CreateConceptInput("Sorting", {"cs"}, {"advanced"}, {"published"})}

UpdateConceptProbes ==
    {UpdateConceptInput(id, fields) :
        id \in ConceptIdProbes, fields \in ConceptFieldInputs}

ConceptIdInputs == {[id |-> id] : id \in ConceptIdProbes}

ListConceptsProbes ==
    {ListConceptsInput(status, subject) :
        status \in {{}, {"archived"}}, subject \in {{}, {"cs"}}}

SaveStepProbes == StepInputs(Opt(StepIdProbes), ConceptIdProbes)

DeleteStepProbes ==
    {[id |-> id, conceptId |-> conceptId] :
        id \in StepIdProbes, conceptId \in ConceptIdProbes}

SaveCheckProbes == CheckInputs(Opt(CheckIdProbes), ConceptIdProbes)

DeleteCheckProbes ==
    {[id |-> id, conceptId |-> conceptId] :
        id \in CheckIdProbes, conceptId \in ConceptIdProbes}

CreateJobProbes ==
    {JobInput(conceptId, status) :
        conceptId \in Opt(ConceptIdProbes), status \in {{}, {"completed"}}}

UpdateJobProbes ==
    {[id |-> id, output |-> {}, status |-> status] :
        id \in JobIdProbes, status \in {{}, {"completed"}}}
    \cup {[id |-> id, output |-> {"text"}, status |-> {"failed"}] :
            id \in JobIdProbes}

ListJobsProbes ==
    {[conceptId |-> conceptId, status |-> status] :
        conceptId \in Opt(ConceptIdProbes), status \in {{}, {"pending"}}}

\* P(op, context, input) for every call
EveryCall(P(_, _, _)) ==
    \A context \in Contexts :
      /\ \A input \in CreateConceptProbes : P("createConcept", context, input)
      /\ \A input \in UpdateConceptProbes : P("updateConcept", context, input)
      /\ \A input \in ConceptIdInputs : P("archiveConcept", context, input)
      /\ \A input \in ListConceptsProbes : P("listMyConcepts", context, input)
      /\ \A input \in ConceptIdInputs :
           P("getConceptWithDetails", context, input)
      /\ \A input \in SaveStepProbes : P("saveStep", context, input)
      /\ \A input \in DeleteStepProbes : P("deleteStep", context, input)
      /\ \A input \in SaveCheckProbes : P("saveCheck", context, input)
      /\ \A input \in DeleteCheckProbes : P("deleteCheck", context, input)
      /\ \A input \in CreateJobProbes : P("createJob", context, input)
      /\ \A input \in UpdateJobProbes : P("updateJob", context, input)
      /\ \A input \in ListJobsProbes : P("listJobs", context, input)

\* user owns the Concept with this id
Owns(S, user, conceptId) ==
    \E c \in S.Concepts : c.id = conceptId /\ c.ownerId = user

\* the call failed with NOT_FOUND and left the store S as it was
Refused(S, out) ==
    /\ ~out.result.ok
    /\ out.result.code = "NOT_FOUND"
    /\ out.db = S

----------------------------------------------------------------------------
(* C1 *)

\* C1: for a caller X and a concept id c that is not the id of a Concept
\* of X (another user's, or no row's), updateConcept, archiveConcept,
\* getConceptWithDetails, saveStep, saveCheck and createJob with that id
\* fail with NOT_FOUND and write nothing.
C1_UnownedConceptIsNotFound ==
    \A context \in UserContexts, c \in ConceptIdProbes :
      ~Owns(db, Val(context.user), c) =>
        /\ \A input \in UpdateConceptProbes :
             input.id = c => Refused(db, updateConcept(db, context, input))
        /\ Refused(db, archiveConcept(db, context, [id |-> c]))
        /\ Refused(db, getConceptWithDetails(db, context, [id |-> c]))
        /\ \A input \in SaveStepProbes :
             input.conceptId = c => Refused(db, saveStep(db, context, input))
        /\ \A input \in SaveCheckProbes :
             input.conceptId = c => Refused(db, saveCheck(db, context, input))
        /\ \A input \in CreateJobProbes :
             input.conceptId = {c} => Refused(db, createJob(db, context, input))

----------------------------------------------------------------------------
(* C2 *)

----------------------------------------------------------------------------
(* C3 *)

\* no call moves a Step or a Check to another Concept
KeepsParent(op, context, input) ==
    LET out == Apply(op, db, context, input)
    IN /\ \A s \in db.ConceptSteps, t \in out.db.ConceptSteps :
            s.id = t.id => s.conceptId = t.conceptId
       /\ \A k \in db.ConceptChecks, l \in out.db.ConceptChecks :
            k.id = l.id => k.conceptId = l.conceptId

\* C3: saveStep (saveCheck) with the id of a Step (Check) stored under
\* another conceptId than the one supplied fails with NOT_FOUND and leaves
\* the store as it was, and no call changes the conceptId of a stored Step
\* or Check.
C3_NoReassignment ==
    /\ \A context \in UserContexts, input \in SaveStepProbes :
         (\E s \in ConceptSteps :
            input.id = {s.id} /\ s.conceptId # input.conceptId)
         => Refused(db, saveStep(db, context, input))
    /\ \A context \in UserContexts, input \in SaveCheckProbes :
         (\E k \in ConceptChecks :
            input.id = {k.id} /\ k.conceptId # input.conceptId)
         => Refused(db, saveCheck(db, context, input))
    /\ EveryCall(KeepsParent)

\* a Step and a Check under one Concept while their owner has another
\* Concept, and the owner's saveStep and saveCheck into that other Concept
\* have failed on the guard
C3_Witness ==
    \E s \in ConceptSteps, k \in ConceptChecks, c \in Concepts, d \in Concepts :
      /\ s.conceptId = c.id /\ k.conceptId = c.id
      /\ d.id # c.id /\ d.ownerId = c.ownerId
      /\ saveStep(db, [user |-> {c.ownerId}],
                  StepInput({s.id}, d.id, {}, {}, {}, "revised")).result
           = NotFound("Step not found.")
      /\ saveCheck(db, [user |-> {c.ownerId}],
                   CheckInput({k.id}, d.id, "really?", {}, {})).result
           = NotFound("Check not found.")

----------------------------------------------------------------------------
(* C4 *)

\* C4: updateConcept with the id alone, of a Concept of the caller, returns
\* the stored row and writes nothing: every field, updatedAt too, stays.
C4_EmptyUpdateWritesNothing ==
    \A context \in UserContexts, c \in Concepts :
      c.ownerId = Val(context.user) =>
        LET out == updateConcept(db, context,
                                 UpdateConceptInput(c.id, NoConceptFields))
        IN /\ out.result = Ok([concept |-> {c}])
           /\ out.db = db

\* a Concept last written before now, so that a write would show in updatedAt
C4_Witness ==
    \E c \in Concepts :
      /\ c.updatedAt < now
      /\ updateConcept(db, [user |-> {c.ownerId}],
                       UpdateConceptInput(c.id, NoConceptFields)).result.ok

----------------------------------------------------------------------------
(* C5 *)

\* the ids a table has given out whose rows are gone
DeletedIds(rows, lastId) == {i \in 1 .. lastId : \A r \in rows : r.id # i}

\* C5: deleteStep (deleteCheck) of a Step (Check) of a Concept of the caller
\* removes the row and returns it; the same call again, at once or in any
\* later state, fails with NOT_FOUND and leaves the store as it was.
C5_DeleteTwice ==
    /\ \A context \in UserContexts, s \in ConceptSteps :
         Owns(db, Val(context.user), s.conceptId) =>
           LET input == [id |-> s.id, conceptId |-> s.conceptId]
               first == deleteStep(db, context, input)
               second == deleteStep(first.db, context, input)
           IN /\ first.result = Ok([step |-> {s}])
              /\ first.db = [db EXCEPT !.ConceptSteps = @ \ {s}]
              /\ Refused(first.db, second)
    /\ \A context \in UserContexts, k \in ConceptChecks :
         Owns(db, Val(context.user), k.conceptId) =>
           LET input == [id |-> k.id, conceptId |-> k.conceptId]
               first == deleteCheck(db, context, input)
               second == deleteCheck(first.db, context, input)
           IN /\ first.result = Ok([check |-> {k}])
              /\ first.db = [db EXCEPT !.ConceptChecks = @ \ {k}]
              /\ Refused(first.db, second)
    /\ \A context \in UserContexts, input \in DeleteStepProbes :
         input.id \in DeletedIds(ConceptSteps, seq.ConceptSteps)
         => Refused(db, deleteStep(db, context, input))
    /\ \A context \in UserContexts, input \in DeleteCheckProbes :
         input.id \in DeletedIds(ConceptChecks, seq.ConceptChecks)
         => Refused(db, deleteCheck(db, context, input))

\* a Step and a Check have been deleted, and their Concept's owner deletes
\* them again
C5_Witness ==
    \E c \in Concepts :
      /\ \E i \in DeletedIds(ConceptSteps, seq.ConceptSteps) :
           deleteStep(db, [user |-> {c.ownerId}],
                      [id |-> i, conceptId |-> c.id]).result
             = NotFound("Step not found.")
      /\ \E i \in DeletedIds(ConceptChecks, seq.ConceptChecks) :
           deleteCheck(db, [user |-> {c.ownerId}],
                       [id |-> i, conceptId |-> c.id]).result
             = NotFound("Check not found.")

----------------------------------------------------------------------------
(* C6 *)

\* C6: saveStep with the id of a Step of the supplied Concept, a Concept of
\* the caller, updates that row, inserts none, and leaves in every mutable
\* field the supplied value or the default: stepNumber 1, stepType "other",
\* and nothing in heading, example and analogy.
C6_SaveStepReplacesEveryField ==
    \A context \in UserContexts, input \in SaveStepProbes, s \in ConceptSteps :
      (/\ input.id = {s.id}
       /\ input.conceptId = s.conceptId
       /\ Owns(db, Val(context.user), s.conceptId))
      => LET out == saveStep(db, context, input)
             step == [id |-> s.id,
                      conceptId |-> input.conceptId,
                      stepNumber |-> OrElse(input.stepNumber, 1),
                      stepType |-> OrElse(input.stepType, "other"),
                      heading |-> input.heading,
                      content |-> input.content,
                      example |-> input.example,
                      analogy |-> input.analogy,
                      createdAt |-> s.createdAt]
         IN /\ out.result = Ok([step |-> {step}])
            /\ out.db = [db EXCEPT !.ConceptSteps = (@ \ {s}) \cup {step}]

----------------------------------------------------------------------------
(* C7 *)

\* C7: updateConcept{id, status: "published"} on a Concept of the caller
\* succeeds and leaves it published, whatever its status, archived too:
\* after archiveConcept has archived it as well.
C7_ArchivedCanBePublished ==
    \A context \in UserContexts, c \in Concepts :
      c.ownerId = Val(context.user) =>
        LET publish == UpdateConceptInput(c.id,
                           ConceptFields({}, {}, {}, {"published"}))
            out == updateConcept(db, context, publish)
            archived == archiveConcept(db, context, [id |-> c.id])
            after == updateConcept(archived.db, context, publish)
        IN /\ out.result.ok
           /\ \A r \in out.result.data.concept : r.status = "published"
           /\ out.result.data.concept = {r \in out.db.Concepts : r.id = c.id}
           /\ out.result.data.concept # {}
           /\ archived.result.ok
           /\ \A r \in archived.db.Concepts : r.id = c.id => r.status = "archived"
           /\ after.result.ok
           /\ \A r \in after.db.Concepts : r.id = c.id => r.status = "published"

\* archiveConcept has archived a Concept, and its owner publishes it
C7_Witness ==
    \E c \in Concepts :
      /\ c.status = "archived"
      /\ updateConcept(db, [user |-> {c.ownerId}],
             UpdateConceptInput(c.id,
                 ConceptFields({}, {}, {}, {"published"}))).result.ok

----------------------------------------------------------------------------
(* C8 *)

\* the store without the rows of the other users: their Concepts, the Steps
\* and Checks under those, their Jobs.  Two stores that differ only in rows
\* of users other than user are the same store after Scrub.
Scrub(S, user) ==
    [S EXCEPT !.Concepts = {c \in @ : c.ownerId = user},
              !.ConceptSteps = {s \in @ : Owns(S, user, s.conceptId)},
              !.ConceptChecks = {k \in @ : Owns(S, user, k.conceptId)},
              !.ConceptJobs = {j \in @ : j.ownerId = user}]

SameResult(op, context, input) ==
    context.user # {} =>
      Apply(op, db, context, input).result
        = Apply(op, Scrub(db, Val(context.user)), context, input).result

\* C8: what a call returns to caller X, a result or an error, is what it
\* returns in the store without the rows of the other users: no call tells
\* X whether a row of another user exists.
C8_OthersRowsDoNotShow == EveryCall(SameResult)

\* X, who has a Concept, names the Step, the Check and the Job of another
\* user in saveStep, deleteStep, saveCheck and updateJob
C8_Witness ==
    \E c \in Concepts, s \in ConceptSteps, k \in ConceptChecks,
       j \in ConceptJobs :
      /\ ~Owns(db, c.ownerId, s.conceptId)
      /\ ~Owns(db, c.ownerId, k.conceptId)
      /\ j.ownerId # c.ownerId
      /\ ~saveStep(db, [user |-> {c.ownerId}],
              StepInput({s.id}, c.id, {}, {}, {}, "revised")).result.ok
      /\ ~deleteStep(db, [user |-> {c.ownerId}],
              [id |-> s.id, conceptId |-> c.id]).result.ok
      /\ ~saveCheck(db, [user |-> {c.ownerId}],
              CheckInput({k.id}, c.id, "really?", {}, {})).result.ok
      /\ ~updateJob(db, [user |-> {c.ownerId}],
              [id |-> j.id, output |-> {}, status |-> {"failed"}]).result.ok

----------------------------------------------------------------------------
(* C9 *)

\* the rows that are not user's: the Concepts and Jobs of other owners, the
\* Steps and Checks under a Concept that user does not own
RowsOfOthers(S, user) ==
    [Concepts |-> {c \in S.Concepts : c.ownerId # user},
     ConceptSteps |-> {s \in S.ConceptSteps : ~Owns(S, user, s.conceptId)},
     ConceptChecks |-> {k \in S.ConceptChecks : ~Owns(S, user, k.conceptId)},
     ConceptJobs |-> {j \in S.ConceptJobs : j.ownerId # user}]

KeepsOthers(op, context, input) ==
    LET out == Apply(op, db, context, input)
    IN /\ context.user # {} =>
            RowsOfOthers(out.db, Val(context.user))
              = RowsOfOthers(db, Val(context.user))
       /\ \A c \in db.Concepts, d \in out.db.Concepts :
            c.id = d.id => c.ownerId = d.ownerId
       /\ \A j \in db.ConceptJobs, l \in out.db.ConceptJobs :
            j.id = l.id => j.ownerId = l.ownerId

\* C9: a call of caller X changes no Concept and no Job of another owner and
\* no Step and no Check under a Concept that X does not own, and no call
\* changes the ownerId of a Concept or of a Job.
C9_CallsKeepOthersRows == EveryCall(KeepsOthers)

\* two users with a Concept each: one has archived theirs, and the other's
\* Concept, Step, Check and Job are as they were created
C9_Witness ==
    \E c \in Concepts, d \in Concepts, s \in ConceptSteps,
       k \in ConceptChecks, j \in ConceptJobs :
      /\ c.ownerId # d.ownerId
      /\ c.status = "archived" /\ d.status = "draft"
      /\ s.conceptId = d.id /\ k.conceptId = d.id
      /\ j.ownerId = d.ownerId /\ j.status = "pending"

----------------------------------------------------------------------------
(* C10 *)

\* C10: a saveStep call with an id that returns without an error returns
\* the Step with that id, also when a deleteStep of the id runs between its
\* store calls.
C10_SaveStepReturnsTheStep ==
    \A p \in DOMAIN calls :
      (/\ calls[p].pc = "returned"
       /\ calls[p].op = "saveStep"
       /\ TruthyNum(calls[p].input.id)
       /\ calls[p].result.ok)
      => \E s \in calls[p].result.data.step : s.id = Val(calls[p].input.id)

====
